---- MODULE Spec2Model ----
(***************************************************************************)
(* Batched Monte-Carlo tree search of scalinglaws/mcts.py, run on the      *)
(* validation games of scalinglaws/testgames.py with the ProxyAgent        *)
(* evaluator.  One MCTS object holds n_envs independent trees of n_nodes   *)
(* slots each.  The public methods initialize, simulate and root are the   *)
(* operations; simulate is split at its two loops (descend and backup) so  *)
(* that each loop iteration is one step.  Spec is the tree search; the     *)
(* bisection solver search is run on its own under SearchSpec.             *)
(*                                                                         *)
(* Values (rewards, evaluator values, value sums) are integers in units of *)
(* 1/One, One = 2^AllOnesLength, which makes every value of the three      *)
(* games exact.  Indices are 0-based as in the source; a negative index    *)
(* addresses from the end of the array as it does in Python.               *)
(***************************************************************************)
EXTENDS Integers, Sequences, FiniteSets, TLC

\* ------------------------------------------------------------------ bounds
NEnvs == 2
NNodes == 3
AllOnesLength == 2
DeepNodes == 5

\* --------------------------------------------------------------- variables
VARIABLES
    game,         \* which validation game the world is an instance of
    n_envs,       \* self.n_envs = world.n_envs
    n_nodes,      \* self.n_nodes
    sim,          \* self.sim
    tree,         \* self.tree: children, parents, relation
    worlds,       \* self.worlds
    transitions,  \* self.transitions: rewards, terminal
    log_pi,       \* self.log_pi
    stats,        \* self.stats: n, w
    pc,           \* position inside the running method, "idle" between calls
    call,         \* the method called last
    raised,       \* the exception the last call raised, "" for none
    current,      \* local `current` of descend and of backup
    actions,      \* local `actions` of descend / simulate
    parents,      \* local `parents` of descend / simulate
    leaves,       \* local `leaves` of simulate
    decisions,    \* local `decisions` of simulate (the evaluator's output)
    v,            \* local `v` of backup (the carried running value)
    entry,        \* self.stats as it was on entry to backup
    evaluated,    \* how often the running or last call has called the evaluator
    steps,        \* how often the running or last call has stepped the environment
    f,            \* search: the function, f[i][x] its value for row i at x
    alpha_min,    \* search: the caller's left ends of the brackets
    alpha_max,    \* search: the caller's right ends of the brackets
    bad,          \* search: local `bad`
    xl,           \* search: local `xl` (the clone)
    xr,           \* search: local `xr` (the clone)
    spc,          \* search: position, "off" when the model does not run it
    alpha_star,   \* search: the tensor returned
    error,        \* search: the message of the ValueError raised, "" for none
    c_puct,       \* self.c_puct, a fraction <<numerator, denominator>>
    written,      \* the nodes whose world and transition the running simulate assigned
    agent,        \* where the facade mcts() / MCTSAgent.__call__ stands
    root_out,     \* what the last call of root() returned
    evaluator,    \* the agent given to initialize and simulate
    args,         \* regularized_policy: the rows (pi, q, lambda_n) it is given
    probs,        \* regularized_policy: the tensor returned, policy(alpha_star)
    drawn         \* what Categorical(probs=probs).sample() gave

vars == <<game, n_envs, n_nodes, sim, tree, worlds, transitions, log_pi,
          stats, pc, call, raised, current, actions, parents, leaves,
          decisions, v, entry, evaluated, steps, f, alpha_min, alpha_max, bad, xl,
          xr, spc, alpha_star, error, c_puct, written, agent, root_out,
          evaluator, args, probs, drawn>>

\* what the constructor is given and never changes
given == <<game, n_envs, n_nodes, c_puct, evaluator>>

regularized == <<args, probs, drawn>>
solver == <<f, alpha_min, alpha_max, bad, xl, xr, spc, alpha_star, error, regularized>>
object == <<sim, tree, worlds, transitions, log_pi, stats>>
locals == <<current, actions, parents, leaves, decisions, v, entry, written>>
caller == <<agent, root_out>>

\* ------------------------------------------------------------ basic values
Envs == 0 .. n_envs - 1
Nodes == 0 .. n_nodes - 1
Games == {"InstantWin", "FirstWinsSecondLoses", "AllOnes"}

RECURSIVE Pow2(_)
Pow2(k) == IF k <= 0 THEN 1 ELSE 2 * Pow2(k - 1)

\* the value 1.0 in the model's units
One == Pow2(AllOnesLength)

\* NaN entry of a float array
NaN == -1

\* Python index: a negative index counts from the end
Idx(i, len) == IF i < 0 THEN i + len ELSE i

n_seats == IF game = "FirstWinsSecondLoses" THEN 2 ELSE 1
n_actions == IF game = "AllOnes" THEN 2 ELSE 1
Seats == 0 .. n_seats - 1
Actions == 0 .. n_actions - 1

ZeroVec == [s \in Seats |-> 0]

\* ------------------------------------------------------------------- games
\* number of entries of a history row equal to 1
CountOnes(history) == Cardinality({i \in DOMAIN history : history[i] = 1})

\* AllOnes._observe: the value estimate shown to the evaluator
AllOnesV(history, idx) ==
    IF CountOnes(history) = idx + 1 THEN Pow2(CountOnes(history)) ELSE 0

\* uniform_logits(valid) with every action valid, as probability weights
uniform_logits == [a \in Actions |-> 1]

\* the world handed to MCTS: <game>.reset()
initial ==
    CASE game = "InstantWin" ->
            [seats |-> 0, idx |-> 0, history |-> <<>>, v |-> [s \in Seats |-> One]]
      [] game = "FirstWinsSecondLoses" ->
            [seats |-> 0, idx |-> 0, history |-> <<>>,
             v |-> [s \in Seats |-> IF s = 0 THEN One ELSE 0 - One]]
      [] game = "AllOnes" ->
            [seats |-> 0, idx |-> 0,
             history |-> [i \in 0 .. AllOnesLength - 1 |-> -1],
             v |-> [s \in Seats |-> AllOnesV([i \in 0 .. AllOnesLength - 1 |-> -1], 0)]]

InstantWinStep(world, a) ==
    [world |-> world,
     transition |-> [terminal |-> TRUE, rewards |-> [s \in Seats |-> One]]]

FirstWinsSecondLosesStep(world, a) ==
    LET terminal == (world.seats = 1)
        t == IF terminal THEN One ELSE 0
    IN  [world |-> [world EXCEPT !.seats = IF terminal THEN 0 ELSE world.seats + 1],
         transition |-> [terminal |-> terminal,
                         rewards |-> [s \in Seats |-> IF s = 0 THEN t ELSE 0 - t]]]

AllOnesStep(world, a) ==
    LET history == [world.history EXCEPT ![world.idx] = a]
        obs == AllOnesV(history, world.idx)
        idx == world.idx + 1
        terminal == (idx = AllOnesLength)
        win == terminal /\ (\A i \in DOMAIN history : history[i] = 1)
    IN  [world |-> [seats |-> 0,
                    idx |-> IF terminal THEN 0 ELSE idx,
                    history |-> IF terminal
                                THEN [i \in DOMAIN history |-> -1]
                                ELSE history,
                    v |-> [s \in Seats |-> obs]],
         transition |-> [terminal |-> terminal,
                         rewards |-> [s \in Seats |-> IF win THEN One ELSE 0]]]

\* world.step(actions) for one environment
step(world, a) ==
    CASE game = "InstantWin" -> InstantWinStep(world, a)
      [] game = "FirstWinsSecondLoses" -> FirstWinsSecondLosesStep(world, a)
      [] game = "AllOnes" -> AllOnesStep(world, a)

\* ProxyAgent.__call__: the evaluator repeats what the world shows
ProxyAgent(world) == [logits |-> uniform_logits, v |-> world.v]

\* RandomAgent.__call__: uniform over the valid actions, value zero
RandomAgent(world) == [logits |-> uniform_logits, v |-> ZeroVec]

\* ------------------------------------------------------------------- state
NoDecisions == [e \in Envs |-> [logits |-> uniform_logits, v |-> ZeroVec]]
ZeroStats ==
    [n |-> [e \in Envs |-> [i \in Nodes |-> 0]],
     w |-> [e \in Envs |-> [i \in Nodes |-> ZeroVec]]]

\* the locals of a method that is not running
LocalsReset ==
    /\ current' = [e \in Envs |-> 0]
    /\ actions' = [e \in Envs |-> -1]
    /\ parents' = [e \in Envs |-> 0]
    /\ leaves' = [e \in Envs |-> -1]
    /\ decisions' = NoDecisions
    /\ v' = [e \in Envs |-> ZeroVec]
    /\ entry' = ZeroStats
    /\ written' = [e \in Envs |-> {}]

\* exploration coefficient: the default c_puct = 2.5 = CPuctNum/CPuctDen
CPuctNum == 5
CPuctDen == 2

\* the coefficients the object is built with: the default, and zero, which
\* the constructor stores like any other
CPucts == {<<CPuctNum, CPuctDen>>, <<0, 1>>}

\* the arenas the object is built with: a batch of n_envs trees, and one
\* deeper tree
Shapes == {<<NEnvs, NNodes>>, <<1, DeepNodes>>}

\* the arenas the facade is run with: the deeper tree, and a batch with a
\* budget of one node less
FacadeShapes == {<<NEnvs, NNodes - 1>>, <<1, DeepNodes>>}

\* how the object is used: its methods called in any order on one of the
\* Shapes, or by the facade on one of the FacadeShapes
Uses ==
    {[shape |-> shape, at |-> "off", evaluator |-> "ProxyAgent"] : shape \in Shapes}
        \cup {[shape |-> shape, at |-> "initialize", evaluator |-> "ProxyAgent"] :
                    shape \in FacadeShapes}
        \cup {[shape |-> <<1, DeepNodes>>, at |-> "off", evaluator |-> "RandomAgent"]}

\* the solver's variables while the model runs the tree search alone
SolverOff ==
    /\ f = <<>>
    /\ alpha_min = <<>>
    /\ alpha_max = <<>>
    /\ bad = <<>>
    /\ xl = <<>>
    /\ xr = <<>>
    /\ spc = "off"
    /\ alpha_star = <<>>
    /\ error = ""
    /\ args = <<>>
    /\ probs = <<>>
    /\ drawn = <<>>

\* MCTS.__init__
ConstructedFrom(uses) ==
    /\ game \in Games
    /\ \E use \in uses :
            /\ n_envs = use.shape[1]
            /\ n_nodes = use.shape[2]
            /\ agent = [at |-> use.at, i |-> 0]
            /\ evaluator = use.evaluator
    /\ evaluated = 0
    /\ steps = 0
    /\ sim = 0
    /\ tree = [children |-> [e \in Envs |-> [i \in Nodes |-> [a \in Actions |-> -1]]],
               parents |-> [e \in Envs |-> [i \in Nodes |-> -1]],
               relation |-> [e \in Envs |-> [i \in Nodes |-> -1]]]
    /\ worlds = [e \in Envs |-> [i \in Nodes |-> initial]]
    /\ transitions = [rewards |-> [e \in Envs |-> [i \in Nodes |-> ZeroVec]],
                      terminal |-> [e \in Envs |-> [i \in Nodes |-> FALSE]]]
    /\ log_pi = [e \in Envs |-> [i \in Nodes |-> [a \in Actions |-> NaN]]]
    /\ stats = ZeroStats
    /\ pc = "idle"
    /\ call = "__init__"
    /\ raised = ""
    /\ current = [e \in Envs |-> 0]
    /\ actions = [e \in Envs |-> -1]
    /\ parents = [e \in Envs |-> 0]
    /\ leaves = [e \in Envs |-> -1]
    /\ decisions = NoDecisions
    /\ v = [e \in Envs |-> ZeroVec]
    /\ entry = ZeroStats
    /\ written = [e \in Envs |-> {}]
    /\ c_puct \in CPucts
    /\ root_out = <<>>

Constructed == ConstructedFrom(Uses)

Init == Constructed /\ SolverOff

\* evaluator(world, value=True): the decisions of the agent in use
decide(world) ==
    IF evaluator = "ProxyAgent" THEN ProxyAgent(world) ELSE RandomAgent(world)

\* ----------------------------------------------------------------- descent
\* prior probability weights of a node: self.log_pi[envs, nodes].exp()
pi(e, node) == log_pi[e][Idx(node, n_nodes)]

\* MCTS.sample: the actions Categorical(probs=policy).sample() can return.
\* The solved policy gives action a the mass lambda_n*pi_a/(alpha - q_a) with
\* lambda_n > 0 and alpha above every q_a, positive exactly where pi_a is.
sample(e, node) == {a \in Actions : pi(e, node)[a] > 0}

\* descend, loop head: interior & ~terminal
\* descend, line 140, finding no prior at the root
interiorOffTheRoot(e) ==
    current[e] # 0 /\ \A a \in Actions : log_pi[e][Idx(current[e], n_nodes)][a] # NaN
interior(e) == \A a \in Actions : log_pi[e][Idx(current[e], n_nodes)][a] # NaN
terminal(e) == transitions.terminal[e][Idx(current[e], n_nodes)]
\* descend, line 142, without the terminal mask
activeIgnoringTerminal(e) == interior(e)

\* descend, line 142, going on from the root only
activeAtRootOnly(e) == interior(e) /\ ~terminal(e) /\ current[e] = 0

active(e) == interior(e) /\ ~terminal(e)
ActiveEnvs == {e \in Envs : active(e)}

\* ------------------------------------------------------------------ policy

\* exact fractions <<numerator, denominator>>, denominator positive, reduced
RECURSIVE GCD(_, _)
GCD(a, b) == IF b = 0 THEN a ELSE GCD(b, a % b)
Abs(x) == IF x < 0 THEN 0 - x ELSE x
Frac(num, den) ==
    LET g == GCD(Abs(num), den)
    IN  <<num \div g, den \div g>>
FracSub(x, y) == Frac(x[1] * y[2] - y[1] * x[2], x[2] * y[2])
FracLeq(x, y) == x[1] * y[2] <= y[1] * x[2]
FracMin(S) == CHOOSE x \in S : \A y \in S : FracLeq(x, y)
FracMax(S) == CHOOSE x \in S : \A y \in S : FracLeq(y, x)

RECURSIVE SumOver(_, _)
SumOver(vec, S) ==
    IF S = {} THEN 0
    ELSE LET x == CHOOSE y \in S : TRUE
         IN  vec[x] + SumOver(vec, S \ {x})

\* action_stats, lines 91-95: the children's statistics, zero where the
\* slot is empty (the sentinel indexes the last slot before it is masked)
ChildN(e, node, a) ==
    LET c == tree.children[e][node][a]
    IN  IF c # -1 THEN stats.n[e][Idx(c, n_nodes)] ELSE 0
ChildW(e, node, a, s) ==
    LET c == tree.children[e][node][a]
    IN  IF c # -1 THEN stats.w[e][Idx(c, n_nodes)][s] ELSE 0

\* action_stats, lines 97-100: q = w/n, and 0 where n is 0
RawQ(e, node, a, s) ==
    IF ChildN(e, node, a) = 0
    THEN Frac(0, 1)
    ELSE Frac(ChildW(e, node, a, s), ChildN(e, node, a) * One)

\* action_stats(envs, nodes) of one call: nodes[e] is the node of environment
\* e.  q.min() and q.max() range over the whole tensor of the call.  The
\* rescaled q is kept as the pair (num, range) that stands for
\* num/(range + 1e-6), with (0, 0) for the value 0: for the fractions that
\* arise here two such values are equal exactly when the pairs are.
rescaled(envs, nodes, lo, hi) ==
    [e \in envs |-> [a \in Actions |-> [s \in Seats |->
        LET num == FracSub(RawQ(e, nodes[e], a, s), lo)
        IN  IF ChildN(e, nodes[e], a) = 0 \/ num[1] = 0
            THEN [num |-> Frac(0, 1), range |-> Frac(0, 1)]
            ELSE [num |-> num, range |-> FracSub(hi, lo)]]]]
extremes(all) == [min |-> FracMin(all), max |-> FracMax(all)]
action_stats(envs, nodes) ==
    LET x == extremes({RawQ(e, nodes[e], a, s) : e \in envs, a \in Actions, s \in Seats})
    IN  [q |-> rescaled(envs, nodes, x.min, x.max),
         n |-> [e \in envs |-> [a \in Actions |-> ChildN(e, nodes[e], a)]]]

\* MCTS.policy(envs, nodes) up to the call of the solver: for each environment
\* of the call the arguments (pi, q, lambda_n) regularized_policy is given
arguments(st, envs, nodes) ==
    [e \in envs |->
        LET total == SumOver(st.n[e], Actions)
            N == IF total < 1 THEN 1 ELSE total
        IN  [pi |-> pi(e, nodes[e]),
             q |-> [a \in Actions |-> st.q[e][a][worlds[e][nodes[e]].seats]],
             lambda_n |-> Frac(c_puct[1] * N, c_puct[2] * (n_actions + N))]]
policy(envs, nodes) == arguments(action_stats(envs, nodes), envs, nodes)

\* ------------------------------------------------------------- the methods
\* mcts(), lines 259-261, with one iteration more
FacadeNextOneMore ==
    IF agent.at = "initialize" THEN "initialize"
    ELSE IF agent.at = "loop" /\ agent.i < n_nodes THEN "simulate"
    ELSE IF agent.at = "loop" THEN "root"
    ELSE "none"

\* mcts(), lines 259-261, and MCTSAgent.__call__, line 273: the method the
\* facade calls next; agent.i is the number of iterations of the loop begun
FacadeNext ==
    IF agent.at = "initialize" THEN "initialize"
    ELSE IF agent.at = "loop" /\ agent.i < n_nodes - 1 THEN "simulate"
    ELSE IF agent.at = "loop" THEN "root"
    ELSE "none"

\* method m is called: by the facade when it is its next call, by anyone
\* when the object is used without the facade
Called(m) ==
    /\ agent.at = "off" \/ FacadeNext = m
    /\ agent' = IF agent.at = "off" THEN agent
                ELSE IF m = "initialize" THEN [at |-> "loop", i |-> 0]
                ELSE IF m = "simulate" THEN [agent EXCEPT !.i = @ + 1]
                ELSE [agent EXCEPT !.at = "done"]

\* an exception leaves the method; the facade does not catch it
Propagated == IF agent.at = "off" THEN agent ELSE [agent EXCEPT !.at = "failed"]

\* initialize, clearing the statistics as well
InitializeResettingStats ==
    /\ pc = "idle"
    /\ sim < n_nodes
    /\ log_pi' = [e \in Envs |->
                    [log_pi[e] EXCEPT ![sim] = decide(worlds[e][0]).logits]]
    /\ sim' = sim + 1
    /\ call' = "initialize"
    /\ raised' = ""
    /\ stats' = ZeroStats
    /\ evaluated' = 1
    /\ steps' = 0
    /\ Called("initialize")
    /\ root_out' = <<>>
    /\ UNCHANGED <<given, solver, tree, worlds, transitions, pc, locals>>

\* initialize, dropping the evaluator's prior
InitializeWithoutPrior ==
    /\ pc = "idle"
    /\ sim < n_nodes
    /\ sim' = sim + 1
    /\ call' = "initialize"
    /\ raised' = ""
    /\ evaluated' = 1
    /\ steps' = 0
    /\ Called("initialize")
    /\ root_out' = <<>>
    /\ UNCHANGED <<given, solver, tree, worlds, transitions, log_pi, stats, pc, locals>>

\* initialize, storing the prior after self.sim has advanced
InitializeAfterAdvance ==
    /\ pc = "idle"
    /\ sim + 1 < n_nodes
    /\ log_pi' = [e \in Envs |->
                    [log_pi[e] EXCEPT ![sim + 1] = decide(worlds[e][0]).logits]]
    /\ sim' = sim + 1
    /\ call' = "initialize"
    /\ raised' = ""
    /\ evaluated' = 1
    /\ steps' = 0
    /\ Called("initialize")
    /\ root_out' = <<>>
    /\ UNCHANGED <<given, solver, tree, worlds, transitions, stats, pc, locals>>

\* MCTS.initialize(agent), writing the prior to the slot before self.sim,
\* the last slot of the arena on a fresh object
InitializeAtLastSlot ==
    /\ pc = "idle"
    /\ sim < n_nodes
    /\ log_pi' = [e \in Envs |->
                    [log_pi[e] EXCEPT ![Idx(sim - 1, n_nodes)] = decide(worlds[e][0]).logits]]
    /\ sim' = sim + 1
    /\ call' = "initialize"
    /\ raised' = ""
    /\ evaluated' = 1
    /\ steps' = 0
    /\ Called("initialize")
    /\ root_out' = <<>>
    /\ UNCHANGED <<given, solver, tree, worlds, transitions, stats, pc, locals>>

\* MCTS.initialize(agent), on an index inside the arena
Initialize ==
    /\ pc = "idle"
    /\ sim < n_nodes
    /\ log_pi' = [e \in Envs |->
                    [log_pi[e] EXCEPT ![sim] = decide(worlds[e][0]).logits]]
    /\ sim' = sim + 1
    /\ call' = "initialize"
    /\ raised' = ""
    /\ evaluated' = 1
    /\ steps' = 0
    /\ Called("initialize")
    /\ root_out' = <<>>
    /\ UNCHANGED <<given, solver, tree, worlds, transitions, stats, pc, locals>>

\* MCTS.initialize(agent) when self.sim is past the arena: the indexed
\* assignment raises before anything is written
InitializeRaise ==
    /\ pc = "idle"
    /\ sim >= n_nodes
    /\ call' = "initialize"
    /\ raised' = "IndexError"
    /\ evaluated' = 1
    /\ steps' = 0
    /\ Called("initialize")
    /\ root_out' = <<>>
    /\ UNCHANGED <<given, solver, object, pc, locals>>

\* simulate, line 169, with the comparison off by one
BudgetExceededOffByOne == sim > n_nodes

\* simulate, line 169: the budget check
BudgetExceeded == sim >= n_nodes

\* simulate, lines 169-170, with the evaluator consulted before the check
SimulateRaiseAfterEvaluating ==
    /\ pc = "idle"
    /\ BudgetExceeded
    /\ call' = "simulate"
    /\ raised' = "ValueError"
    /\ evaluated' = 1
    /\ steps' = 0
    /\ agent.at = "off" \/ FacadeNext = "simulate"
    /\ agent' = Propagated
    /\ root_out' = <<>>
    /\ UNCHANGED <<given, solver, object, pc, locals>>

\* MCTS.simulate, budget check failing
SimulateRaise ==
    /\ pc = "idle"
    /\ BudgetExceeded
    /\ call' = "simulate"
    /\ raised' = "ValueError"
    /\ evaluated' = 0
    /\ steps' = 0
    /\ agent.at = "off" \/ FacadeNext = "simulate"
    /\ agent' = Propagated
    /\ root_out' = <<>>
    /\ UNCHANGED <<given, solver, object, pc, locals>>

\* MCTS.simulate, budget check passing, and the first lines of descend
SimulateEnter ==
    /\ pc = "idle"
    /\ ~BudgetExceeded
    /\ call' = "simulate"
    /\ raised' = ""
    /\ pc' = "descend"
    /\ current' = [e \in Envs |-> 0]
    /\ actions' = [e \in Envs |-> -1]
    /\ parents' = [e \in Envs |-> 0]
    /\ evaluated' = 0
    /\ steps' = 0
    /\ Called("simulate")
    /\ root_out' = <<>>
    /\ UNCHANGED <<given, solver, object, leaves, decisions, v, entry, written>>

\* descend, line 144, with c_puct = 0: lambda_n is 0, the solver is given
\* alpha_min = alpha_max = max q and returns 0/0 completed to inf at the best
\* action, and Categorical finds probs/probs.sum() to be nan: its argument
\* check raises ValueError, and where that check is off the draw raises
\* RuntimeError.  The exception leaves descend and simulate.
DescendRaise ==
    /\ pc = "descend"
    /\ ActiveEnvs # {}
    /\ c_puct[1] = 0
    /\ raised' \in {"ValueError", "RuntimeError"}
    /\ pc' = "idle"
    /\ agent' = Propagated
    /\ LocalsReset
    /\ UNCHANGED <<given, solver, object, call, evaluated, steps, root_out>>

\* one iteration of the loop of descend with some environment active
DescendStep ==
    /\ pc = "descend"
    /\ ActiveEnvs # {}
    /\ c_puct[1] > 0
    /\ \E sampled \in [ActiveEnvs -> Actions] :
          /\ \A e \in ActiveEnvs : sampled[e] \in sample(e, current[e])
          /\ actions' = [e \in Envs |-> IF active(e) THEN sampled[e] ELSE actions[e]]
          /\ parents' = [e \in Envs |-> IF active(e) THEN current[e] ELSE parents[e]]
          /\ current' = [e \in Envs |->
                IF active(e)
                THEN tree.children[e][Idx(current[e], n_nodes)][sampled[e]]
                ELSE current[e]]
    /\ UNCHANGED <<given, solver, caller, object, pc, call, raised, leaves, decisions, v,
                   entry, written, evaluated, steps>>

\* simulate, lines 176-177, allocating a fresh node for every leaf
LeafAlwaysFresh(e) == sim

\* simulate, lines 176-177, allocating the slot before self.sim
LeafOffByOne(e) ==
    LET c == tree.children[e][Idx(parents[e], n_nodes)][Idx(actions[e], n_actions)]
    IN  IF c = -1 THEN sim - 1 ELSE c

\* simulate, lines 176-177, allocating the lowest slot without a parent
LeafLowestFree(e) ==
    LET c == tree.children[e][Idx(parents[e], n_nodes)][Idx(actions[e], n_actions)]
        free == {i \in 1 .. sim : tree.parents[e][i] = -1} \cup {sim}
    IN  IF c = -1 THEN CHOOSE i \in free : \A j \in free : i <= j ELSE c

\* leaves of simulate: the child in the slot, or self.sim for an empty slot
Leaf(e) ==
    LET c == tree.children[e][Idx(parents[e], n_nodes)][Idx(actions[e], n_actions)]
    IN  IF c = -1 THEN sim ELSE c

\* simulate, lines 179-181, without the write of relation
WireWithoutRelation(lf) ==
    [children |-> [e \in Envs |->
        [tree.children[e] EXCEPT
            ![Idx(parents[e], n_nodes)][Idx(actions[e], n_actions)] = lf[e]]],
     parents |-> [e \in Envs |->
        [tree.parents[e] EXCEPT ![Idx(lf[e], n_nodes)] = parents[e]]],
     relation |-> tree.relation]

\* simulate, line 179, writing the whole row of the parent's children
WireClearingSiblings(lf) ==
    [children |-> [e \in Envs |->
        [tree.children[e] EXCEPT
            ![Idx(parents[e], n_nodes)] =
                [a \in Actions |-> IF a = Idx(actions[e], n_actions) THEN lf[e] ELSE -1]]],
     parents |-> [e \in Envs |->
        [tree.parents[e] EXCEPT ![Idx(lf[e], n_nodes)] = parents[e]]],
     relation |-> [e \in Envs |->
        [tree.relation[e] EXCEPT ![Idx(lf[e], n_nodes)] = actions[e]]]]

\* simulate, line 180, with index and value exchanged
WireParentsSwapped(lf) ==
    [children |-> [e \in Envs |->
        [tree.children[e] EXCEPT
            ![Idx(parents[e], n_nodes)][Idx(actions[e], n_actions)] = lf[e]]],
     parents |-> [e \in Envs |->
        [tree.parents[e] EXCEPT ![Idx(parents[e], n_nodes)] = lf[e]]],
     relation |-> [e \in Envs |->
        [tree.relation[e] EXCEPT ![Idx(lf[e], n_nodes)] = actions[e]]]]

\* simulate, line 179, storing the parent in the slot
WireParentAsChild(lf) ==
    [children |-> [e \in Envs |->
        [tree.children[e] EXCEPT
            ![Idx(parents[e], n_nodes)][Idx(actions[e], n_actions)] = parents[e]]],
     parents |-> [e \in Envs |->
        [tree.parents[e] EXCEPT ![Idx(lf[e], n_nodes)] = parents[e]]],
     relation |-> [e \in Envs |->
        [tree.relation[e] EXCEPT ![Idx(lf[e], n_nodes)] = actions[e]]]]

\* simulate, lines 179-181: the leaf is written into the three link arrays
Wire(lf) ==
    [children |-> [e \in Envs |->
        [tree.children[e] EXCEPT
            ![Idx(parents[e], n_nodes)][Idx(actions[e], n_actions)] = lf[e]]],
     parents |-> [e \in Envs |->
        [tree.parents[e] EXCEPT ![Idx(lf[e], n_nodes)] = parents[e]]],
     relation |-> [e \in Envs |->
        [tree.relation[e] EXCEPT ![Idx(lf[e], n_nodes)] = actions[e]]]]

\* the rest of simulate up to the call of backup: descend returns, the leaf
\* is wired in, the world is stepped and evaluated, backup copies its inputs
Expand ==
    /\ pc = "descend"
    /\ ActiveEnvs = {}
    /\ LET lf == [e \in Envs |-> Leaf(e)]
           stepped == [e \in Envs |-> step(worlds[e][Idx(parents[e], n_nodes)], actions[e])]
           dec == [e \in Envs |-> decide(stepped[e].world)]
       IN  /\ leaves' = lf
           /\ tree' = Wire(lf)
           /\ worlds' = [e \in Envs |->
                [worlds[e] EXCEPT ![Idx(lf[e], n_nodes)] = stepped[e].world]]
           /\ transitions' =
                [rewards |-> [e \in Envs |->
                    [transitions.rewards[e] EXCEPT
                        ![Idx(lf[e], n_nodes)] = stepped[e].transition.rewards]],
                 terminal |-> [e \in Envs |->
                    [transitions.terminal[e] EXCEPT
                        ![Idx(lf[e], n_nodes)] = stepped[e].transition.terminal]]]
           /\ decisions' = dec
           /\ log_pi' = [e \in Envs |->
                [log_pi[e] EXCEPT ![Idx(lf[e], n_nodes)] = dec[e].logits]]
           /\ written' = [e \in Envs |-> {Idx(lf[e], n_nodes)}]
           /\ current' = lf
           /\ v' = [e \in Envs |-> dec[e].v]
    /\ entry' = stats
    /\ pc' = "backup"
    /\ evaluated' = evaluated + 1
    /\ steps' = steps + 1
    /\ UNCHANGED <<given, solver, caller, sim, stats, call, raised, actions, parents>>

\* backup, line 155: the environments still walking up
\* backup, line 155, passing over the root
climbingBelowRoot(e) == current[e] # -1 /\ current[e] # 0
climbing(e) == current[e] # -1

\* backup, lines 159-161, without the reset at a terminal node
CarriedWithoutReset(e) ==
    [s \in Seats |-> v[e][s] + transitions.rewards[e][current[e]][s]]

\* backup, lines 159-161, without the node's reward
CarriedWithoutReward(e) ==
    [s \in Seats |-> IF transitions.terminal[e][current[e]] THEN 0 ELSE v[e][s]]

\* backup, lines 159-161, adding the node's reward twice
CarriedWithRewardTwice(e) ==
    [s \in Seats |->
        (IF transitions.terminal[e][current[e]] THEN 0 ELSE v[e][s])
        + 2 * transitions.rewards[e][current[e]][s]]

\* backup, line 166, stopping below the root
UpBelowRoot(e) ==
    IF tree.parents[e][current[e]] = 0 THEN -1 ELSE tree.parents[e][current[e]]

\* backup, line 166, never leaving the root
UpStayingAtRoot(e) ==
    IF tree.parents[e][current[e]] = -1 THEN current[e] ELSE tree.parents[e][current[e]]

\* backup, line 166: the walk moves to the parent
Up(e) == tree.parents[e][current[e]]

\* the value backup carries out of a node: reset at a terminal node, then
\* the node's recorded reward added
Carried(e) ==
    [s \in Seats |->
        (IF transitions.terminal[e][current[e]] THEN 0 ELSE v[e][s])
        + transitions.rewards[e][current[e]][s]]

\* one iteration of the loop of backup with some environment active
BackupStep ==
    /\ pc = "backup"
    /\ \E e \in Envs : climbing(e)
    /\ \A e \in Envs : climbing(e) => stats.n[e][current[e]] < n_nodes
    /\ v' = [e \in Envs |-> IF climbing(e) THEN Carried(e) ELSE v[e]]
    /\ stats' =
         [n |-> [e \in Envs |->
                IF climbing(e)
                THEN [stats.n[e] EXCEPT ![current[e]] = @ + 1]
                ELSE stats.n[e]],
          w |-> [e \in Envs |->
                IF climbing(e)
                THEN [stats.w[e] EXCEPT
                        ![current[e]] = [s \in Seats |-> @[s] + Carried(e)[s]]]
                ELSE stats.w[e]]]
    /\ current' = [e \in Envs |->
            IF climbing(e) THEN Up(e) ELSE current[e]]
    /\ UNCHANGED <<given, solver, caller, sim, tree, worlds, transitions, log_pi, pc, call,
                   raised, actions, parents, leaves, decisions, entry, written,
                   evaluated, steps>>

\* backup finds no environment active and returns; simulate counts the
\* simulation and returns
BackupReturn ==
    /\ pc = "backup"
    /\ \A e \in Envs : ~climbing(e)
    /\ sim' = sim + 1
    /\ pc' = "idle"
    /\ LocalsReset
    /\ UNCHANGED <<given, solver, caller, tree, worlds, transitions, log_pi, stats, call, raised,
                   evaluated, steps>>

\* root(), lines 198-203, up to the call of the solver: for each environment
\* the rescaled action values q of the root and the arguments of the solver
\* whose answer p weights them; root returns v = (q*p).sum(-2) and log p
root ==
    LET roots == [e \in Envs |-> 0]
        st == action_stats(Envs, roots)
        p == arguments(st, Envs, roots)
    IN  [e \in Envs |-> [q |-> st.q[e], p |-> p[e]]]

\* MCTS.root(): reads the tree and the statistics; with a NaN prior at the
\* root the policy solver raises 'Hit a nan'
Root ==
    /\ pc = "idle"
    /\ call' = "root"
    /\ raised' = IF \E e \in Envs, a \in Actions : pi(e, 0)[a] = NaN
                 THEN "ValueError"
                 ELSE ""
    /\ evaluated' = 0
    /\ steps' = 0
    /\ agent.at = "off" \/ FacadeNext = "root"
    /\ agent' = IF raised' # "" THEN Propagated
                ELSE IF agent.at = "off" THEN agent
                ELSE [agent EXCEPT !.at = "done"]
    /\ root_out' = IF raised' # "" THEN <<>> ELSE root
    /\ UNCHANGED <<given, solver, object, pc, locals>>

Next ==
    \/ Initialize
    \/ InitializeRaise
    \/ SimulateRaise
    \/ SimulateEnter
    \/ DescendStep
    \/ DescendRaise
    \/ Expand
    \/ BackupStep
    \/ BackupReturn
    \/ Root

Spec == Init /\ [][Next]_vars

\* simulate is straight-line code around two loops: once entered, each
\* step of it is taken when the evaluator, the environment and the policy
\* solver return
Running ==
    /\ WF_vars(DescendStep)
    /\ WF_vars(DescendRaise)
    /\ WF_vars(Expand)
    /\ WF_vars(BackupStep)
    /\ WF_vars(BackupReturn)

LiveSpec == Init /\ [][Next]_vars /\ Running

\* test_depth and test_multienv: AllOnes searched by the facade with the
\* exact values of ProxyAgent, once with the budget of the whole game tree
\* in one environment and once in a batch of identical environments
DepthNodes == 2 * Pow2(AllOnesLength) - 1
DepthUses ==
    {[shape |-> shape, at |-> "initialize", evaluator |-> "ProxyAgent"] :
        shape \in {<<1, DepthNodes>>, <<NEnvs, NNodes>>}}

DepthInit ==
    /\ ConstructedFrom(DepthUses)
    /\ game = "AllOnes"
    /\ c_puct = <<CPuctNum, CPuctDen>>
    /\ SolverOff

DepthNext ==
    \/ Initialize
    \/ SimulateEnter
    \/ DescendStep
    \/ Expand
    \/ BackupStep
    \/ BackupReturn
    \/ Root

DepthSpec == DepthInit /\ [][DepthNext]_vars

\* ------------------------------------------------------------------ search
\* The bisection solver, search of mcts.py, run on its own on a batch with
\* one row per environment.  The reals are the grid 0 .. GridMax: halving a
\* difference rounds down to the grid, which is how the midpoint of two
\* adjacent floats falls on an endpoint.  Values of f are floats, in units of
\* tol/2, or nan.
GridMax == 2
Grid == 0 .. GridMax

\* tol = 1e-3, in the units of the values of f
Tol == 2

\* the float nan
nan == 1000
Finite == {-3, -1, 0, 1, 3}
Floats == Finite \cup {nan}

\* comparisons of floats: false when an operand is nan
Less(a, b) == a # nan /\ b # nan /\ a < b
LessEq(a, b) == a # nan /\ b # nan /\ a <= b
\* y.abs()
AbsOf(y) == IF y = nan THEN nan ELSE Abs(y)

\* the inputs of one row: a bracket and a function on it
RowsOn(lo, hi, values) == {[lo |-> lo, hi |-> hi, f |-> g] : g \in [lo .. hi -> values]}
Decreasing(g) == \A x, y \in DOMAIN g : x <= y => g[x] >= g[y]
Strictly(g) == \A x, y \in DOMAIN g : x < y => g[x] > g[y]

\* rows as the solver expects them: f decreasing on the bracket with
\* f(xl) >= 0 >= f(xr)
Expected(row) ==
    /\ \A x \in DOMAIN row.f : row.f[x] # nan
    /\ Decreasing(row.f)
    /\ row.f[row.lo] >= 0
    /\ row.f[row.hi] <= 0
\* the expected rows with a strictly decreasing f, on every bracket
ExpectedRows ==
    UNION {UNION {{row \in RowsOn(lo, hi, Finite) : Expected(row) /\ Strictly(row.f)}
                  : hi \in lo .. GridMax}
           : lo \in Grid}

\* rows of any kind on the whole grid (flat stretches, wrong signs, nan), and
\* the two rows they are batched with: one whose root is found at the first
\* midpoint and one that needs every iteration
AnyRows == RowsOn(0, GridMax, Floats)
Companions ==
    {[lo |-> 0, hi |-> GridMax, f |-> [x \in Grid |-> 0]],
     [lo |-> 0, hi |-> GridMax, f |-> [x \in Grid |-> IF x < GridMax THEN 3 ELSE -3]]}

\* the batches search is called with: expected rows in every combination,
\* and one row of any kind next to a companion
Batches ==
    [Envs -> ExpectedRows]
    \cup {[i \in Envs |-> IF i = 0 THEN row ELSE other] : row \in AnyRows, other \in Companions}

\* the variables of the tree search, which the solver run leaves alone
tree_search == <<given, object, pc, call, raised, locals, evaluated, steps, caller>>

\* a caller about to call search(f, alpha_min, alpha_max)
SearchInit ==
    /\ Constructed
    /\ game = "InstantWin"
    /\ n_envs = NEnvs
    /\ n_nodes = NNodes
    /\ c_puct = <<CPuctNum, CPuctDen>>
    /\ agent.at = "off"
    /\ evaluator = "ProxyAgent"
    /\ \E batch \in Batches :
          /\ f = [i \in Envs |-> batch[i].f]
          /\ alpha_min = [i \in Envs |-> batch[i].lo]
          /\ alpha_max = [i \in Envs |-> batch[i].hi]
    /\ bad = [i \in Envs |-> FALSE]
    /\ xl = alpha_min
    /\ xr = alpha_max
    /\ spc = "call"
    /\ alpha_star = <<>>
    /\ error = ""
    /\ args = <<>>
    /\ probs = <<>>
    /\ drawn = <<>>

\* search, lines 10-11: the rows flagged bad, and the clones
SearchCall ==
    /\ spc = "call"
    /\ bad' = [i \in Envs |->
                \/ Less(f[i][alpha_min[i]], 0 - Tol)
                \/ Less(Tol, f[i][alpha_max[i]])]
    /\ xl' = alpha_min
    /\ xr' = alpha_max
    /\ spc' = "loop"
    /\ UNCHANGED <<tree_search, regularized, f, alpha_min, alpha_max, alpha_star, error>>

\* search, lines 14-18: the midpoint, the three values and the two tests
xm ==
    [i \in Envs |->
        IF xl[i] = nan \/ xr[i] = nan THEN nan ELSE xl[i] + (xr[i] - xl[i]) \div 2]
yl(i) == f[i][xl[i]]
ym(i) == f[i][xm[i]]
yr(i) == f[i][xr[i]]
converged(i) == Less(AbsOf(ym(i)), Tol)
underflow(i) == xm[i] # nan /\ (xm[i] = xl[i] \/ xm[i] = xr[i])

\* search, line 19
Finished == \A i \in Envs : converged(i) \/ underflow(i) \/ bad[i]

\* search, lines 20-23: the rows answered with an endpoint
fallback_l(i) == bad[i] /\ LessEq(AbsOf(yl(i)), AbsOf(yr(i)))
fallback_r(i) == bad[i] /\ Less(AbsOf(yr(i)), AbsOf(yl(i)))

\* the tensor search returns: xm with the endpoint written over it for the
\* two kinds of fallback rows (both assignments take the value from xl)
Returned ==
    [i \in Envs |->
        IF fallback_r(i) THEN xl[i]
        ELSE IF fallback_l(i) THEN xl[i]
        ELSE xm[i]]

\* search, lines 25-30: the first check that fails, "" when none does
Failure ==
    IF \E i \in Envs : yl(i) = nan \/ ym(i) = nan \/ yr(i) = nan
    THEN "Hit a nan"
    ELSE IF \E i \in Envs : Less(yl(i), 0 - Tol)
    THEN "Left boundary has passed the root"
    ELSE IF \E i \in Envs : Less(Tol, yr(i))
    THEN "Right boundary has passed the root"
    ELSE ""

\* search, lines 32-36: the half a row's root is in
in_left(i) == Less(ym(i), 0) /\ ~bad[i]
\* search, line 35, testing for the sign of the other half
in_rightWrongSign(i) == Less(ym(i), 0) /\ ~bad[i]
in_right(i) == Less(0, ym(i)) /\ ~bad[i]

\* an iteration of the loop that returns
SearchReturn ==
    /\ spc = "loop"
    /\ Finished
    /\ alpha_star' = Returned
    /\ spc' = "returned"
    /\ UNCHANGED <<tree_search, regularized, f, alpha_min, alpha_max, bad, xl, xr, error>>

\* an iteration of the loop that raises
SearchRaise ==
    /\ spc = "loop"
    /\ ~Finished
    /\ Failure # ""
    /\ error' = Failure
    /\ spc' = "raised"
    /\ UNCHANGED <<tree_search, regularized, f, alpha_min, alpha_max, bad, xl, xr, alpha_star>>

\* an iteration of the loop that halves the brackets
SearchBisect ==
    /\ spc = "loop"
    /\ ~Finished
    /\ Failure = ""
    /\ xr' = [i \in Envs |-> IF in_left(i) THEN xm[i] ELSE xr[i]]
    /\ xl' = [i \in Envs |-> IF in_right(i) THEN xm[i] ELSE xl[i]]
    /\ UNCHANGED <<tree_search, regularized, f, alpha_min, alpha_max, bad, spc, alpha_star, error>>

SearchNext ==
    \/ SearchCall
    \/ SearchBisect
    \/ SearchReturn
    \/ SearchRaise

SearchSpec == SearchInit /\ [][SearchNext]_vars

\* ------------------------------------------------------- regularized_policy
\* The floats of this part are the multiples of 1/Unit^2: priors, action
\* values and lambda_n are counted in 1/Unit, alpha in 1/Unit^2.
Unit == 4

\* float infinity among the values of f, above every finite value
inf == 999

\* 1/tol of search
TolInverse == 1000

\* the rows regularized_policy is given: a prior that sums to one (zeros
\* allowed), action values in [0, 1], lambda_n > 0; and the row of a node
\* that was never evaluated, whose prior is NaN
Priors == {p \in [Actions -> {0, Unit \div 2, Unit}] : SumOver(p, Actions) = Unit}
ActionValues == [Actions -> {0, Unit}]
Lambdas == {Unit \div 2, Unit}
PolicyRows ==
    {[pi |-> p, q |-> x, lambda_n |-> l] :
        p \in Priors, x \in ActionValues, l \in Lambdas}
    \cup {[pi |-> [a \in Actions |-> NaN], q |-> [a \in Actions |-> 0],
           lambda_n |-> Unit \div 2]}

HasNaN(row) == \E a \in Actions : row.pi[a] = NaN
Max(S) == CHOOSE x \in S : \A y \in S : y <= x

\* regularized_policy, lines 39-40: the bracket
lower(row) ==
    IF HasNaN(row) THEN nan
    ELSE Max({Unit * row.q[a] + row.lambda_n * row.pi[a] : a \in Actions})
upper(row) == Unit * Max({row.q[a] : a \in Actions}) + Unit * row.lambda_n

\* policy(alpha), lines 42-48, with a uniform prior in place of pi
policy_atUniform(row, alpha) ==
    [a \in Actions |->
        IF row.pi[a] = NaN \/ alpha = nan THEN <<0, 0>>
        ELSE IF alpha = Unit * row.q[a] THEN <<1, 0>>
        ELSE IF alpha > Unit * row.q[a]
             THEN Frac(row.lambda_n * Unit, n_actions * (alpha - Unit * row.q[a]))
             ELSE Frac(0 - row.lambda_n * Unit, n_actions * (Unit * row.q[a] - alpha))]

\* regularized_policy, lines 42-48: policy(alpha) for one row, as fractions;
\* <<1, 0>> is inf (x/0, and 0/0 completed by line 47), <<0, 0>> is nan
policy_at(row, alpha) ==
    [a \in Actions |->
        IF row.pi[a] = NaN \/ alpha = nan THEN <<0, 0>>
        ELSE IF alpha = Unit * row.q[a] THEN <<1, 0>>
        ELSE IF alpha > Unit * row.q[a]
             THEN Frac(row.lambda_n * row.pi[a], alpha - Unit * row.q[a])
             ELSE Frac(0 - row.lambda_n * row.pi[a], Unit * row.q[a] - alpha)]

FracAdd(x, y) == Frac(x[1] * y[2] + y[1] * x[2], x[2] * y[2])
RECURSIVE FracSum(_, _)
FracSum(vec, S) ==
    IF S = {} THEN <<0, 1>>
    ELSE LET x == CHOOSE y \in S : TRUE
         IN  FracAdd(vec[x], FracSum(vec, S \ {x}))

\* a fraction as a value of f, in units of tol/2
Level(x) ==
    IF x[1] = 0 THEN 0
    ELSE IF Abs(x[1]) * TolInverse < x[2] THEN (IF x[1] < 0 THEN -1 ELSE 1)
    ELSE (IF x[1] < 0 THEN -3 ELSE 3)

\* regularized_policy, line 49: error(alpha) = policy(alpha).sum(-1) - 1
error_at(row, alpha) ==
    LET p == policy_at(row, alpha)
    IN  IF \E a \in Actions : p[a] = <<0, 0>> THEN nan
        ELSE IF \E a \in Actions : p[a] = <<1, 0>> THEN inf
        ELSE Level(FracSub(FracSum(p, Actions), <<1, 1>>))

\* error on the floats of the bracket
table(row) ==
    [alpha \in (IF lower(row) = nan THEN {nan, upper(row)}
                ELSE lower(row) .. upper(row)) |-> error_at(row, alpha)]

\* regularized_policy(pi, q, lambda_n) up to its call of search
PolicyInit ==
    /\ Constructed
    /\ game = "AllOnes"
    /\ n_envs = NEnvs
    /\ n_nodes = NNodes
    /\ c_puct = <<CPuctNum, CPuctDen>>
    /\ agent.at = "off"
    /\ evaluator = "ProxyAgent"
    /\ args \in [Envs -> PolicyRows]
    /\ f = [i \in Envs |-> table(args[i])]
    /\ alpha_min = [i \in Envs |-> lower(args[i])]
    /\ alpha_max = [i \in Envs |-> upper(args[i])]
    /\ bad = [i \in Envs |-> FALSE]
    /\ xl = alpha_min
    /\ xr = alpha_max
    /\ spc = "call"
    /\ alpha_star = <<>>
    /\ error = ""
    /\ probs = <<>>
    /\ drawn = <<>>

\* regularized_policy, line 53: policy(alpha_star) is returned
PolicyReturn ==
    /\ spc = "returned"
    /\ probs' = [i \in Envs |-> policy_at(args[i], alpha_star[i])]
    /\ spc' = "policy"
    /\ UNCHANGED <<tree_search, f, alpha_min, alpha_max, bad, xl, xr, alpha_star,
                   error, args, drawn>>

\* MCTS.sample, line 126: Categorical(probs=probs) divides each row by its
\* sum; with an inf in the row the quotient holds nan
normalizable(i) == \A a \in Actions : probs[i][a][2] # 0

\* the draw fails: ValueError from the argument check of Categorical, and
\* RuntimeError from the draw where the check is off
SampleRaise ==
    /\ spc = "policy"
    /\ \E i \in Envs : ~normalizable(i)
    /\ drawn' \in {"ValueError", "RuntimeError"}
    /\ spc' = "failed"
    /\ UNCHANGED <<tree_search, f, alpha_min, alpha_max, bad, xl, xr, alpha_star,
                   error, args, probs>>

\* the draw gives each row an action of positive mass
SampleDraw ==
    /\ spc = "policy"
    /\ \A i \in Envs : normalizable(i)
    /\ \E d \in [Envs -> Actions] :
            /\ \A i \in Envs : probs[i][d[i]][1] > 0
            /\ drawn' = d
    /\ spc' = "sampled"
    /\ UNCHANGED <<tree_search, f, alpha_min, alpha_max, bad, xl, xr, alpha_star,
                   error, args, probs>>

PolicyNext ==
    \/ SearchCall
    \/ SearchBisect
    \/ SearchReturn
    \/ SearchRaise
    \/ PolicyReturn
    \/ SampleRaise
    \/ SampleDraw

PolicySpec == PolicyInit /\ [][PolicyNext]_vars

\* ------------------------------------------------------------------ claims
\* the slot descend returned for environment e
Slot(e) == tree.children[e][Idx(parents[e], n_nodes)][Idx(actions[e], n_actions)]

\* the nodes from a node up to the root along the parent links, the node
\* first; at most n_nodes of them
RECURSIVE PathFrom(_, _, _)
PathFrom(e, node, fuel) ==
    IF node = -1 \/ fuel = 0
    THEN <<>>
    ELSE <<node>> \o PathFrom(e, tree.parents[e][node], fuel - 1)
Path(e) == PathFrom(e, leaves[e], n_nodes)
OnPath(e, x) == \E d \in DOMAIN Path(e) : Path(e)[d] = x

\* the step in which backup and then simulate return
BackupReturns == pc = "backup" /\ pc' = "idle"

\* C1: a call of simulate made when sim >= n_nodes raises ValueError, does
\* not enter the body of simulate and leaves the object as it was.
C1_SimulatePastBudgetRaises ==
    [][(pc = "idle" /\ sim >= n_nodes /\ call' = "simulate")
        => (raised' = "ValueError" /\ pc' = "idle" /\ UNCHANGED object)]_vars

\* C1 witness: initialize, n_nodes-1 successful simulations, then a call of
\* simulate that raised.
C1_Witness ==
    /\ sim = n_nodes
    /\ \A e \in Envs : stats.n[e][0] = n_nodes - 1
    /\ call = "simulate"
    /\ raised = "ValueError"

\* C2: when the slot descend returned already holds a node, the expansion
\* takes that node as the leaf and the link arrays of that environment stay
\* as they were until simulate returns.
C2_FilledSlotIsReused ==
    [][/\ (pc = "descend" /\ pc' = "backup") =>
            \A e \in Envs : Slot(e) # -1 =>
                /\ leaves'[e] = Slot(e)
                /\ tree'.children[e] = tree.children[e]
                /\ tree'.parents[e] = tree.parents[e]
                /\ tree'.relation[e] = tree.relation[e]
       /\ pc = "backup" => tree' = tree]_vars

\* C2 witness: an expansion that reused an existing child as its leaf.
C2_Witness ==
    /\ pc = "backup"
    /\ \E e \in Envs : leaves[e] \in 1 .. sim - 1 /\ current[e] = leaves[e]

\* C3: after initialize, every node whose transition is terminal has
\* value_sum = visit_count * reward in every seat.
C3_TerminalRewardAbsorbedOnce ==
    sim >= 1 =>
        \A e \in Envs, t \in Nodes : transitions.terminal[e][t] =>
            \A s \in Seats :
                stats.w[e][t][s] = stats.n[e][t] * transitions.rewards[e][t][s]

\* C3 witness: a terminal node visited twice, with a non-zero reward, whose
\* evaluator value was non-zero.
C3_Witness ==
    /\ pc = "backup"
    /\ \E e \in Envs :
          /\ transitions.terminal[e][leaves[e]]
          /\ stats.n[e][leaves[e]] = 2
          /\ transitions.rewards[e][leaves[e]][0] # 0
          /\ decisions[e].v[0] # 0

\* C4: after initialize, children[e, p, a] = c exactly when parents[e, c] = p
\* and relation[e, c] = a, so a node with a parent sits in exactly one slot.
C4_LinkArraysAgree ==
    sim >= 1 =>
        \A e \in Envs, c \in Nodes :
            /\ \A p \in Nodes, a \in Actions :
                  (tree.children[e][p][a] = c)
                      <=> (tree.parents[e][c] = p /\ tree.relation[e][c] = a)
            /\ tree.parents[e][c] # -1 =>
                  Cardinality({pa \in Nodes \X Actions :
                                  tree.children[e][pa[1]][pa[2]] = c}) = 1

\* C4 witness: an environment whose tree holds a chain root, child, grandchild.
C4_Witness ==
    /\ pc = "idle"
    /\ \E e \in Envs, c \in Nodes :
          /\ tree.parents[e][c] > 0
          /\ tree.children[e][tree.parents[e][c]][tree.relation[e][c]] = c

C6_BackupCountsThePath ==
    [][BackupReturns =>
        \A e \in Envs :
            /\ OnPath(e, 0)
            /\ \A x \in Nodes :
                  /\ stats.n[e][x] = entry.n[e][x] + (IF OnPath(e, x) THEN 1 ELSE 0)
                  /\ ~OnPath(e, x) => stats.w[e][x] = entry.w[e][x]]_vars

\* C6 witness: a backup has reached the sentinel in every environment, in one
\* over a path of three nodes and in one past a visited node off its path.
C6_Witness ==
    /\ pc = "backup"
    /\ \A e \in Envs : current[e] = -1
    /\ \E e \in Envs : Len(Path(e)) = 3
    /\ \E e \in Envs, x \in Nodes : ~OnPath(e, x) /\ entry.n[e][x] > 0

\* the rewards recorded on the first d nodes of the path
RECURSIVE RewardsUpTo(_, _, _)
RewardsUpTo(e, d, s) ==
    IF d = 0 THEN 0
    ELSE transitions.rewards[e][Path(e)[d]][s] + RewardsUpTo(e, d - 1, s)

\* C7: when backup returns, value_sum of the d-th node of the path (the leaf
\* is the first) has grown by the evaluator's value of the leaf, or by zero
\* for a terminal leaf, plus the rewards recorded on the leaf and on the
\* nodes above it up to and including that node.
C7_BackupAddsValuePlusRewards ==
    [][BackupReturns =>
        \A e \in Envs, s \in Seats : \A d \in DOMAIN Path(e) :
            stats.w[e][Path(e)[d]][s] - entry.w[e][Path(e)[d]][s]
                = (IF transitions.terminal[e][leaves[e]] THEN 0 ELSE decisions[e].v[s])
                  + RewardsUpTo(e, d, s)]_vars

\* C7 witness: backups have returned from a non-terminal leaf with a non-zero
\* evaluator value and from a terminal leaf with a non-zero reward.
C7_Witness ==
    /\ pc = "backup"
    /\ \A e \in Envs : current[e] = -1
    /\ \E e \in Envs :
          \/ ~transitions.terminal[e][leaves[e]] /\ decisions[e].v[0] # 0
                /\ Len(Path(e)) = 2
          \/ transitions.terminal[e][leaves[e]] /\ decisions[e].v[0] # 0
                /\ transitions.rewards[e][leaves[e]][0] # 0 /\ Len(Path(e)) = 3

\* C8: only an iteration of backup changes visit_count or value_sum.
C8_StatsChangeOnlyInBackup ==
    [][stats' # stats => (pc = "backup" /\ pc' = "backup")]_vars

\* C8 witness: descent and expansion have run on a tree with visits recorded
\* and the statistics are as they were when simulate was entered.
C8_Witness ==
    /\ pc = "backup"
    /\ stats = entry
    /\ \E e \in Envs, x \in Nodes : x # 0 /\ stats.n[e][x] > 0

\* an environment descend treats as inactive: the prior of its current node
\* holds a NaN, or the node's transition is terminal
Inactive(e) ==
    \/ \E a \in Actions : log_pi[e][Idx(current[e], n_nodes)][a] = NaN
    \/ transitions.terminal[e][Idx(current[e], n_nodes)]

\* C9: an iteration of descend leaves the recorded parent, action and current
\* node of an inactive environment as they were, and the environment is still
\* inactive after it.
C9_InactiveEnvironmentIsFrozen ==
    [][(pc = "descend" /\ pc' = "descend") =>
        \A e \in Envs : Inactive(e) =>
            /\ actions'[e] = actions[e]
            /\ parents'[e] = parents[e]
            /\ current'[e] = current[e]
            /\ Inactive(e)']_vars

\* C9 witness: one environment has stopped at an empty slot and holds its
\* pair while another environment is still descending below the root.
C9_Witness ==
    /\ pc = "descend"
    /\ \E e1, e2 \in Envs :
          /\ Inactive(e1) /\ actions[e1] # -1 /\ current[e1] = -1
          /\ ~Inactive(e2) /\ current[e2] # 0

\* C10: the arguments the policy solver is given for an environment, in
\* descend (a call on the active environments) and in root (a call on all of
\* them), are those it is given when the call holds that environment alone.
C10_PolicyIgnoresOtherEnvironments ==
    /\ (pc = "descend" /\ ActiveEnvs # {}) =>
            \A e \in ActiveEnvs :
                policy(ActiveEnvs, current)[e] = policy({e}, current)[e]
    /\ (pc = "idle" /\ sim >= 1) =>
            \A e \in Envs :
                policy(Envs, [x \in Envs |-> 0])[e] = policy({e}, [x \in Envs |-> 0])[e]

\* a row of the batch was evaluated to nan at an end of its bracket or at the
\* last midpoint
NanSeen(i) ==
    \/ f[i][alpha_min[i]] = nan
    \/ f[i][alpha_max[i]] = nan
    \/ yl(i) = nan
    \/ ym(i) = nan
    \/ yr(i) = nan

\* C11: search does not raise on account of a row flagged bad: with a bad
\* row in the batch the only error it can end with is the one for a nan.
C11_BadRowNeverRaises ==
    (spc = "raised" /\ \E i \in Envs : bad[i]) => error = "Hit a nan"

\* C12: a row flagged bad is answered with xl when |f(xl)| <= |f(xr)| and
\* with xr when |f(xl)| > |f(xr)|.
C12_BadRowGetsBetterEndpoint ==
    spc = "returned" =>
        \A i \in Envs : bad[i] =>
            /\ LessEq(AbsOf(yl(i)), AbsOf(yr(i))) => alpha_star[i] = xl[i]
            /\ Less(AbsOf(yr(i)), AbsOf(yl(i))) => alpha_star[i] = xr[i]

\* C13: search does not return when a value of f it evaluated is nan.
C13_NanNeverReturns ==
    spc = "returned" => \A i \in Envs : ~NanSeen(i)

\* every row of the batch is as the solver expects it
ExpectedBatch ==
    \A i \in Envs : Expected([lo |-> alpha_min[i], hi |-> alpha_max[i], f |-> f[i]])

\* the total width of the brackets
RECURSIVE Width(_)
Width(rows) ==
    IF rows = {} THEN 0
    ELSE LET i == CHOOSE j \in rows : TRUE
         IN  (xr[i] - xl[i]) + Width(rows \ {i})

\* what holds of a row while search runs on an expected batch, and of its
\* answer
RowInBracket(i) ==
    /\ alpha_min[i] <= xl[i]
    /\ xl[i] <= xr[i]
    /\ xr[i] <= alpha_max[i]
    /\ yl(i) >= 0 - Tol
    /\ yr(i) <= Tol
RowAnswered(i) ==
    /\ alpha_star[i] \in alpha_min[i] .. alpha_max[i]
    /\ \/ Abs(f[i][alpha_star[i]]) < Tol
       \/ alpha_star[i] = xm[i] /\ underflow(i)

\* C14: on a batch whose every row has f decreasing on its bracket with
\* f(xl) >= 0 >= f(xr), search never raises, every iteration that does not
\* return narrows the brackets (so the loop ends), the brackets stay inside
\* the caller's with xl <= xr, f(xl) >= -tol and f(xr) <= tol, and the answer
\* of each row lies in the caller's bracket and either has |f| < tol or is a
\* midpoint that fell on an endpoint.
C14_ExpectedBatchIsSolved ==
    [][ExpectedBatch =>
        /\ spc' # "raised"
        /\ (spc = "loop" /\ spc' = "loop") => Width(Envs)' < Width(Envs)
        /\ spc' = "loop" => \A i \in Envs : RowInBracket(i)'
        /\ spc' = "returned" => \A i \in Envs : RowAnswered(i)']_vars

\* C14 witness: search has returned on an expected batch after halving a
\* bracket; one row's answer has |f| < tol away from the endpoints, another's
\* is a midpoint that fell on an endpoint with |f| >= tol.
C14_Witness ==
    /\ spc = "returned"
    /\ ExpectedBatch
    /\ \E i, j \in Envs :
          /\ converged(i) /\ ~underflow(i)
          /\ underflow(j) /\ ~converged(j) /\ xl[j] # alpha_min[j]

\* C15: after initialize, when descend returns a (parent, action) pair whose
\* slot is filled, the child in the slot has a terminal transition.
C15_FilledInsertionPointIsTerminal ==
    (sim >= 1 /\ pc = "descend" /\ ActiveEnvs = {}) =>
        \A e \in Envs : Slot(e) # -1 => transitions.terminal[e][Slot(e)]

\* C15 witness: descend has come back on a tree with a child below a child
\* of the root, with a filled slot in some environment.
C15_Witness ==
    /\ sim >= 1
    /\ pc = "descend"
    /\ ActiveEnvs = {}
    /\ \E e \in Envs : Slot(e) # -1 /\ current[e] = Slot(e)
    /\ \E e \in Envs, i \in Nodes : tree.parents[e][i] >= 1

\* the node indices of environment e in use: the root and every node with a
\* parent
Allocated(e) == {0} \cup {i \in Nodes : tree.parents[e][i] # -1}

\* initialize has been called once and only simulate since: every prior
\* off the root was written by an expansion
InitializedOnce ==
    /\ sim >= 1
    /\ \A e \in Envs, i \in Nodes \ {0} :
          tree.parents[e][i] = -1 => \A a \in Actions : log_pi[e][i][a] = NaN

\* C16: after initialize and any number of simulations the allocated node
\* indices of each environment are 0 .. m for some m: no index below an
\* allocated one is unallocated.
C16_AllocatedIndicesAreDense ==
    InitializedOnce =>
        \A e \in Envs : \A i \in Allocated(e) : \A j \in 0 .. i : j \in Allocated(e)

\* C16 as the code has it: a fresh node gets the index self.sim, which is
\* above every index allocated in its environment before, and the allocated
\* indices stay within 0 .. sim; they need not be dense, an index is passed
\* over in an environment whose simulation reused a child.
C16_FreshNodeTakesSimulationIndex ==
    [][InitializedOnce =>
        /\ (pc = "descend" /\ pc' = "backup") =>
              \A e \in Envs :
                  /\ Slot(e) = -1 =>
                        /\ leaves'[e] = sim
                        /\ \A i \in Allocated(e) : i < sim
                        /\ Allocated(e)' = Allocated(e) \cup {sim}
                  /\ Slot(e) # -1 => Allocated(e)' = Allocated(e)
        /\ \A e \in Envs : Allocated(e)' \subseteq 0 .. sim']_vars

\* C16 witness: a fresh node has been allocated above an index that was
\* passed over.
C16_Witness ==
    /\ InitializedOnce
    /\ pc = "backup"
    /\ \E e \in Envs :
          /\ leaves[e] = sim
          /\ tree.parents[e][sim] # -1
          /\ \E j \in 1 .. sim - 1 : tree.parents[e][j] = -1

\* the children slots of environment e a step changes
ChangedSlots(e) ==
    {pa \in Nodes \X Actions :
        tree'.children[e][pa[1]][pa[2]] # tree.children[e][pa[1]][pa[2]]}

\* C17: a children slot changes only from the sentinel to a node index, so
\* it is written once and keeps its value; children change only in the
\* expansion step of simulate, of which a call has one, and that step changes
\* at most one slot per environment.
C17_ChildrenSlotWrittenOnce ==
    [][/\ tree'.children # tree.children => (pc = "descend" /\ pc' = "backup")
       /\ \A e \in Envs :
            /\ Cardinality(ChangedSlots(e)) <= 1
            /\ \A pa \in ChangedSlots(e) :
                  /\ tree.children[e][pa[1]][pa[2]] = -1
                  /\ tree'.children[e][pa[1]][pa[2]] # -1]_vars

\* C17 witness: an expansion has filled a slot in a tree that already had a
\* filled slot.
C17_Witness ==
    /\ pc = "backup"
    /\ \E e \in Envs :
          /\ leaves[e] = sim
          /\ Slot(e) = sim
          /\ \E pa \in Nodes \X Actions : tree.children[e][pa[1]][pa[2]] \in 1 .. sim - 1

\* C18: after initialize, the parent of every node that has one has a
\* smaller index than the node.
C18_ParentIndexIsSmaller ==
    sim >= 1 =>
        \A e \in Envs, i \in Nodes :
            tree.parents[e][i] # -1 => tree.parents[e][i] \in 0 .. i - 1

\* C18 witness: between two calls, a tree with a node whose parent is not
\* the root and a node whose parent is the root.
C18_Witness ==
    /\ pc = "idle"
    /\ sim >= 1
    /\ \E e \in Envs, i, j \in Nodes :
          tree.parents[e][i] >= 1 /\ tree.parents[e][j] = 0

\* C19: after initialize, node 0 is the one root of every environment: it has
\* no parent, no children slot holds it, its transition is not terminal, and
\* the parent links of every other allocated node lead to it.
C19_NodeZeroIsTheOnlyRoot ==
    sim >= 1 =>
        \A e \in Envs :
            /\ tree.parents[e][0] = -1
            /\ \A p \in Nodes, a \in Actions : tree.children[e][p][a] # 0
            /\ ~transitions.terminal[e][0]
            /\ \A i \in Allocated(e) :
                  LET up == PathFrom(e, i, n_nodes)
                  IN  up[Len(up)] = 0

\* C19 witness: a tree with a terminal node two links below the root.
C19_Witness ==
    /\ sim >= 1
    /\ \E e \in Envs, i \in Nodes :
          /\ transitions.terminal[e][i]
          /\ tree.parents[e][i] >= 1
          /\ tree.parents[e][tree.parents[e][i]] = 0

\* the link arrays as the constructor fills them
NoLinks ==
    [children |-> [e \in Envs |-> [i \in Nodes |-> [a \in Actions |-> -1]]],
     parents |-> [e \in Envs |-> [i \in Nodes |-> -1]],
     relation |-> [e \in Envs |-> [i \in Nodes |-> -1]]]

\* C20: initialize on the constructed object calls the evaluator once, stores
\* its logits as the prior of node 0 and of no other node, takes sim from 0
\* to 1, and leaves every visit_count and value_sum zero and every children,
\* parents and relation entry the sentinel.
C20_InitializeSeedsTheRoot ==
    [][(pc = "idle" /\ sim = 0 /\ call' = "initialize") =>
        /\ evaluated' = 1
        /\ raised' = ""
        /\ sim' = 1
        /\ \A e \in Envs :
              /\ log_pi'[e][0] = decide(worlds[e][0]).logits
              /\ \A i \in Nodes \ {0} : log_pi'[e][i] = log_pi[e][i]
        /\ stats' = ZeroStats
        /\ tree' = NoLinks
        /\ pc' = "idle"]_vars

\* C20 witness: initialize has returned on the constructed object.
C20_Witness ==
    /\ call = "initialize"
    /\ sim = 1
    /\ evaluated = 1
    /\ \A e \in Envs, a \in Actions : log_pi[e][0][a] # NaN
    /\ stats = ZeroStats

\* C21: a run of the facade with a positive c_puct calls initialize once and
\* then simulate exactly n_nodes - 1 times: self.sim is one more than the
\* number of simulations finished, no call finds the budget exceeded or
\* raises, and root is read with self.sim = n_nodes.
C21_FacadeSpendsTheBudget ==
    (agent.at # "off" /\ c_puct[1] > 0) =>
        /\ agent.at # "failed" /\ raised = ""
        /\ agent.at = "initialize" => sim = 0
        /\ agent.at = "loop" => sim = agent.i + (IF pc = "idle" THEN 1 ELSE 0)
        /\ (pc = "idle" /\ FacadeNext = "simulate") => ~BudgetExceeded
        /\ (pc = "idle" /\ FacadeNext = "root") => sim = n_nodes
        /\ agent.at = "done" =>
                sim = n_nodes /\ agent.i = n_nodes - 1 /\ call = "root"

C21_Witness ==
    /\ agent.at = "done" /\ c_puct[1] > 0
    /\ n_nodes = DeepNodes /\ game = "AllOnes"

\* C22: in a run of initialize followed by simulations only, the prior of
\* node i of environment e holds NaN exactly when the node was never
\* evaluated: i is not the root and was never wired in as the leaf of a
\* simulation.  The indices the allocator skipped are among them.
HasNaNPrior(e, i) == \E a \in Actions : log_pi[e][i][a] = NaN
C22_PriorIsNaNUntilEvaluated ==
    agent.at \notin {"off", "initialize"} =>
        \A e \in Envs, i \in Nodes :
            HasNaNPrior(e, i) <=> (i # 0 /\ tree.parents[e][i] = -1)

\* a finished search with a skipped index between two evaluated nodes
C22_Witness ==
    /\ agent.at = "done"
    /\ \E e \in Envs, i, j \in Nodes :
            /\ 0 < i /\ i < j
            /\ HasNaNPrior(e, i) /\ ~HasNaNPrior(e, j)

\* C23: in a run of initialize followed by simulations only, a simulation
\* assigns the world and the transition of no node but the one it allocates
\* at index self.sim; the nodes written by earlier simulations, a reused
\* terminal leaf among them, are not assigned again.
C23_ExpandedNodeIsNotWrittenAgain ==
    (agent.at = "loop" /\ pc = "backup") =>
        \A e \in Envs : \A i \in written[e] : i = sim

\* the action value of node `node` rescaled with the minimum and the maximum
\* of that node's own action values
OwnRescaled(e, node, a, s) ==
    LET own == {RawQ(e, node, b, t) : b \in Actions, t \in Seats}
        num == FracSub(RawQ(e, node, a, s), FracMin(own))
    IN  IF ChildN(e, node, a) = 0 \/ num[1] = 0
        THEN [num |-> Frac(0, 1), range |-> Frac(0, 1)]
        ELSE [num |-> num, range |-> FracSub(FracMax(own), FracMin(own))]

\* C24: the q the solver is given for a node, in descend and in root, is the
\* node's action values rescaled by the node's own minimum and maximum.
C24_QIsRescaledPerNode ==
    /\ (pc = "descend" /\ ActiveEnvs # {}) =>
            \A e \in ActiveEnvs, a \in Actions :
                policy(ActiveEnvs, current)[e].q[a]
                    = OwnRescaled(e, current[e], a, worlds[e][current[e]].seats)
    /\ (pc = "idle" /\ sim >= 1) =>
            \A e \in Envs, a \in Actions :
                root[e].p.q[a] = OwnRescaled(e, 0, a, worlds[e][0].seats)

\* the average of the action values w/n of the root's children weighted by
\* their visit counts
RootVisits(e) == SumOver([a \in Actions |-> ChildN(e, 0, a)], Actions)
VisitWeightedAverage(e, s) ==
    Frac(SumOver([a \in Actions |-> ChildW(e, 0, a, s)], Actions), RootVisits(e) * One)

\* a rescaled value num/(range + 1e-6) is x up to the 1e-6
Near(value, x) ==
    IF value.range[1] = 0
    THEN x[1] = 0
    ELSE value.num[1] * value.range[2] * x[2] = x[1] * value.num[2] * value.range[1]

\* C25: the value root() returns for a seat is the visit-weighted average of
\* the action values of the root's children.  Stated for the games with one
\* action, where the solved policy p is 1 on it and v is the q root weights.
C25_RootValueIsVisitWeightedAverage ==
    (root_out # <<>> /\ n_actions = 1 /\ c_puct[1] > 0) =>
        \A e \in Envs, s \in Seats :
            RootVisits(e) > 0 => Near(root_out[e].q[0][s], VisitWeightedAverage(e, s))

\* the returns (sums of rewards, per seat) of the plays of the game that
\* start in `world`, at most `plies` steps long
RECURSIVE Outcomes(_, _)
Outcomes(world, plies) ==
    IF plies = 0 THEN {}
    ELSE UNION {LET st == step(world, a)
                IN  IF st.transition.terminal
                    THEN {st.transition.rewards}
                    ELSE {[s \in Seats |-> st.transition.rewards[s] + x[s]] :
                            x \in Outcomes(st.world, plies - 1)}
                : a \in Actions}

\* the returns reachable from node i: the reward recorded for reaching it
\* and, unless it is terminal, those of the plays from its world
ReachableFrom(e, i) ==
    IF transitions.terminal[e][i]
    THEN {transitions.rewards[e][i]}
    ELSE {[s \in Seats |-> transitions.rewards[e][i][s] + x[s]] :
            x \in Outcomes(worlds[e][i], AllOnesLength + 1)}

\* the rewards (per seat) of the steps of the plays that start in `world`
RECURSIVE Rewards(_, _)
Rewards(world, plies) ==
    IF plies = 0 THEN {}
    ELSE UNION {LET st == step(world, a)
                IN  {st.transition.rewards}
                        \cup (IF st.transition.terminal THEN {}
                              ELSE Rewards(st.world, plies - 1))
                : a \in Actions}

\* x lies between the least and the greatest component s of the vectors of S
Within(S, s, x) == (\E y \in S : y[s] <= x) /\ (\E y \in S : x <= y[s])

\* the nodes whose evaluation backup has used: the leaves that were not
\* terminal
Valued(e) == {i \in Nodes \ {0} : ~HasNaNPrior(e, i) /\ ~transitions.terminal[e][i]}

\* the values the evaluator gave lie within the rewards of the game
EvaluatorWithinSupport ==
    \A e \in Envs : \A i \in Valued(e) : \A s \in Seats :
        Within(Rewards(initial, AllOnesLength + 1), s, decide(worlds[e][i]).v[s])

\* the value the evaluator gave for a world lies within the returns
\* reachable from that world
EvaluatorWithinReachable ==
    \A e \in Envs : \A i \in Valued(e) : \A s \in Seats :
        Within(Outcomes(worlds[e][i], AllOnesLength + 1), s, decide(worlds[e][i]).v[s])

\* every mean value w/n lies between the least and the greatest return
\* reachable from its node
MeansWithinReachable ==
    \A e \in Envs, i \in Nodes :
        stats.n[e][i] > 0 =>
            LET reachable == ReachableFrom(e, i)
            IN  \A s \in Seats :
                    /\ \E x \in reachable : x[s] * stats.n[e][i] <= stats.w[e][i][s]
                    /\ \E x \in reachable : stats.w[e][i][s] <= x[s] * stats.n[e][i]

\* C26 as stated: after initialize and any simulations, if the evaluator's
\* values lie within the rewards of the game, the mean value w/n of every
\* visited node lies within the returns reachable from the node.
C26_MeanValueWithinReachableRewards ==
    (pc = "idle" /\ sim >= 1 /\ EvaluatorWithinSupport) => MeansWithinReachable

\* C26 amended: the same when the evaluator's value for every world lies
\* within the returns reachable from that world.
C26_MeanValueFollowsTheEvaluator ==
    (pc = "idle" /\ sim >= 1 /\ EvaluatorWithinReachable) => MeansWithinReachable

\* a node off the winning line of AllOnes, visited, with nothing to win
C26_Witness ==
    /\ game = "AllOnes" /\ pc = "idle" /\ sim >= 1
    /\ EvaluatorWithinReachable
    /\ \E e \in Envs, i \in Nodes :
            /\ stats.n[e][i] > 0 /\ stats.n[e][0] > stats.n[e][i]
            /\ ReachableFrom(e, i) = {ZeroVec}
    /\ \E e \in Envs, i \in Nodes :
            /\ stats.n[e][i] > 0 /\ stats.w[e][i][0] > 0
            /\ Cardinality(ReachableFrom(e, i)) > 1

\* C29: an object built with c_puct = 0 is rejected before it searches: no
\* method called on it returns normally and no descent is begun.
C29_ZeroCPuctIsRejected ==
    c_puct[1] = 0 =>
        /\ pc = "idle"
        /\ call # "__init__" => raised # ""

\* regularized_policy has returned for the batch
Solved == spc \in {"policy", "sampled", "failed"}

\* the solved alpha of row i is the action value of action a
Singular(i, a) == alpha_star[i] = Unit * args[i].q[a]

\* C27: when the solved alpha of a row equals q_a, the policy of the row is
\* 1 on a and 0 elsewhere, and sampling from the batch does not fail.
C27_SingularRowIsOneHot ==
    Solved =>
        \A i \in Envs, a \in Actions :
            Singular(i, a) =>
                /\ probs[i] = [b \in Actions |-> IF b = a THEN <<1, 1>> ELSE <<0, 1>>]
                /\ spc # "failed"

\* C28: an action with zero prior gets the mass zero in the solved policy
\* unless the solved alpha equals its q, and the draw never gives an action
\* with zero prior.
C28_ZeroPriorGetsZeroMass ==
    Solved =>
        /\ \A i \in Envs, a \in Actions :
                (args[i].pi[a] = 0 /\ ~Singular(i, a)) => probs[i][a] = <<0, 1>>
        /\ spc = "sampled" => \A i \in Envs : args[i].pi[drawn[i]] > 0

\* a draw from a batch with a row whose zero-prior action has the greatest
\* action value, the other action having been drawn for it
C28_Witness ==
    /\ spc = "sampled"
    /\ \E i \in Envs, a \in Actions :
            /\ args[i].pi[a] = 0 /\ args[i].q[a] = Unit
            /\ \A b \in Actions : args[i].q[b] = Unit
            /\ drawn[i] # a

\* error(alpha) as the sum it stands for, the completion of line 47 aside:
\* the terms of the actions with a positive prior, minus one
Continuous(row, alpha) ==
    LET support == {a \in Actions : row.pi[a] > 0}
    IN  FracSub(FracSum(policy_at(row, alpha), support), <<1, 1>>)

\* the bracket of a row is valid: its ends are ordered, error is not negative
\* at the left end and not positive at the right end, it decreases over the
\* bracket, strictly where it is finite, and it crosses zero inside
ValidBracket(row) ==
    LET lo == lower(row)
        hi == upper(row)
        g == table(row)
    IN  /\ lo <= hi
        /\ LessEq(0, g[lo]) /\ LessEq(g[hi], 0)
        /\ \A x, y \in lo .. hi : x < y => LessEq(g[y], g[x])
        /\ \A x, y \in lo .. hi :
                (x < y /\ g[x] # inf) =>
                    /\ FracLeq(Continuous(row, y), Continuous(row, x))
                    /\ Continuous(row, y) # Continuous(row, x)
        /\ FracLeq(<<0, 1>>, Continuous(row, lo))

\* C30: for every row with a prior that sums to one, action values in [0, 1]
\* and lambda_n > 0 the bracket [alpha_min, alpha_max] is valid and holds
\* exactly one root of error.
C30_BracketHoldsOneRoot ==
    \A i \in Envs : ~HasNaN(args[i]) => ValidBracket(args[i])

\* a rescaled value as a fraction, the 1e-6 of the rescaling aside
AsFrac(value) ==
    IF value.range[1] = 0 THEN <<0, 1>>
    ELSE Frac(value.num[1] * value.range[2], value.num[2] * value.range[1])
FracDiv(x, y) ==
    IF y[1] < 0 THEN Frac(0 - x[1] * y[2], 0 - x[2] * y[1])
    ELSE Frac(x[1] * y[2], x[2] * y[1])

\* the last call of root() returned the value x for seat s of environment
\* e, v = (q*p).sum(-2) being taken with the exact regularized policy p.
\* With one action p is 1.  With two, p1 = (x - q0)/(q1 - q0) and
\* p0 = 1 - p1 are that policy exactly when both lie in (0, 1) and
\* q_a + lambda_n*pi_a/p_a is the same alpha for both actions.
RootValueIs(e, s, x) ==
    LET out == root_out[e]
        q0 == AsFrac(out.q[0][s])
    IN  IF n_actions = 1 \/ AsFrac(out.q[n_actions - 1][s]) = q0
        THEN x = q0
        ELSE LET q1 == AsFrac(out.q[1][s])
                 p1 == FracDiv(FracSub(x, q0), FracSub(q1, q0))
                 p0 == FracSub(<<1, 1>>, p1)
                 total == out.p.pi[0] + out.p.pi[1]
                 weight(a) == Frac(out.p.lambda_n[1] * out.p.pi[a],
                                   out.p.lambda_n[2] * total)
             IN  /\ p0[1] > 0 /\ p1[1] > 0
                 /\ FracAdd(AsFrac(out.p.q[0]), FracDiv(weight(0), p0))
                        = FracAdd(AsFrac(out.p.q[1]), FracDiv(weight(1), p1))

\* the facade has finished a search with the default coefficient
SearchDone == agent.at = "done" /\ c_puct[1] > 0

\* C31: on InstantWin a full search of the facade, whatever its budget,
\* reports the root value +1 for the only seat.
C31_InstantWinRootValueIsOne ==
    (SearchDone /\ game = "InstantWin") =>
        \A e \in Envs : RootValueIs(e, 0, <<1, 1>>)

\* C32: on FirstWinsSecondLoses a full search of the facade, whatever its
\* budget, reports the root value +1 for seat 0 and -1 for seat 1.
C32_FirstWinsSecondLosesRootValue ==
    (SearchDone /\ game = "FirstWinsSecondLoses") =>
        \A e \in Envs : RootValueIs(e, 0, <<1, 1>>) /\ RootValueIs(e, 1, <<-1, 1>>)

\* C33: on AllOnes, searched with the exact values and the budget of
\* test_depth, the facade reports the root value 1/2^length, and it
\* reports that value for every environment of a batch of identical
\* environments.
C33_AllOnesRootValue ==
    SearchDone => \A e \in Envs : RootValueIs(e, 0, <<1, Pow2(AllOnesLength)>>)

\* the number of nodes on the walk from node i along the parent links to
\* the sentinel, counted up to fuel
RECURSIVE WalkLength(_, _, _)
WalkLength(e, i, fuel) ==
    IF i = -1 \/ fuel = 0 THEN 0
    ELSE 1 + WalkLength(e, tree.parents[e][i], fuel - 1)

\* the loops of descend and of backup run their body once for every node
\* an environment passes: descend from the root to the last active node
\* (parents), backup from the leaf to the root
DescendIterations(e) ==
    IF actions[e] = -1 THEN 0 ELSE WalkLength(e, parents[e], n_nodes + 1)
BackupIterations(e) == WalkLength(e, leaves[e], n_nodes + 1)
DescendExits == pc = "descend" /\ ActiveEnvs = {}
BackupExits == pc = "backup" /\ \A e \in Envs : ~climbing(e)

\* the loops exit after at most bound(sim) iterations
ExitWithin(descents, backups) ==
    sim >= 1 =>
        /\ DescendExits => \A e \in Envs : DescendIterations(e) <= descents
        /\ BackupExits => \A e \in Envs : BackupIterations(e) <= backups

\* an iteration of descend moves every active environment to a greater
\* node index or to the sentinel; an iteration of backup moves every
\* climbing environment to the parent of its node
LoopsAdvance ==
    /\ (sim >= 1 /\ DescendStep) =>
            \A e \in ActiveEnvs : current'[e] = -1 \/ current'[e] > current[e]
    /\ (sim >= 1 /\ BackupStep) =>
            \A e \in Envs : climbing(e) => current'[e] = tree.parents[e][current[e]]

SimulateReturns == (sim >= 1 /\ pc # "idle") ~> (pc = "idle")

\* C34: after initialize every simulate that passes the budget check
\* terminates; the loop of descend exits after at most sim iterations, an
\* active environment moving to a greater index or to the sentinel, and
\* the loop of backup exits after at most sim iterations, following the
\* parent links to the sentinel of the root.
C34_SimulateTerminatesWithinSim ==
    /\ [](ExitWithin(sim, sim))
    /\ [][LoopsAdvance]_vars
    /\ SimulateReturns

\* C34 as the code has it: the walk of backup passes the leaf, index sim,
\* as well as its ancestors, so its loop exits after at most sim + 1
\* iterations.
C34_SimulateTerminates ==
    /\ [](ExitWithin(sim, sim + 1))
    /\ [][LoopsAdvance]_vars
    /\ SimulateReturns

C34_Witness ==
    sim >= 2 /\ BackupExits /\ \E e \in Envs : BackupIterations(e) = sim + 1

\* C35: descend indexes the arena with the sentinel -1, which addresses the
\* last slot n_nodes-1; whenever descend runs, that slot has a NaN prior,
\* so an environment whose current node is the sentinel is inactive, and
\* an iteration of the loop leaves it where it is.
SentinelIsInactive ==
    pc = "descend" =>
        \A e \in Envs :
            /\ HasNaNPrior(e, n_nodes - 1)
            /\ current[e] = -1 => ~active(e)
SentinelStays ==
    DescendStep =>
        \A e \in Envs : current[e] = -1 =>
            /\ current'[e] = -1
            /\ parents'[e] = parents[e]
            /\ actions'[e] = actions[e]
C35_SentinelIsNeverAdvanced == [](SentinelIsInactive) /\ [][SentinelStays]_vars

C35_Witness ==
    /\ pc = "descend"
    /\ sim = n_nodes - 1
    /\ \E e \in Envs : current[e] = -1 /\ Idx(current[e], n_nodes) = n_nodes - 1
    /\ \E e \in Envs : active(e)

\* C36: after initialize and k simulate calls that returned, in every
\* environment the root has visit_count k, every allocated node below it
\* has visit_count at least 1 and, unless it is terminal, 1 plus the
\* visit_counts of its children, and every unallocated slot has
\* visit_count 0 and value_sum 0.
ChildVisits(e, i) == SumOver([a \in Actions |-> ChildN(e, i, a)], Actions)
C36_VisitCountsFollowTheTree ==
    (pc = "idle" /\ InitializedOnce) =>
        \A e \in Envs :
            /\ stats.n[e][0] = sim - 1
            /\ \A i \in Allocated(e) \ {0} :
                  /\ stats.n[e][i] >= 1
                  /\ ~transitions.terminal[e][i] => stats.n[e][i] = 1 + ChildVisits(e, i)
            /\ \A i \in Nodes \ Allocated(e) :
                  stats.n[e][i] = 0 /\ stats.w[e][i] = ZeroVec

C36_Witness ==
    /\ pc = "idle" /\ InitializedOnce /\ sim >= 4
    /\ \E e \in Envs :
          /\ Nodes \ Allocated(e) # {}
          /\ \E i \in Allocated(e) \ {0} :
                ~transitions.terminal[e][i] /\ stats.n[e][i] >= 2

\* C37: after initialize, the evaluator returning no NaN logits, descend
\* finds every environment active at the root in its first iteration, and
\* returns for every environment an action in 0 .. n_actions-1 and as
\* parent an allocated node that has a prior and is not terminal.
DescendEnters == pc = "descend" /\ \A e \in Envs : actions[e] = -1
C37_DescendReturnsAnExpandableSlot ==
    sim >= 1 =>
        /\ DescendEnters => \A e \in Envs : current[e] = 0 /\ active(e)
        /\ DescendExits =>
              \A e \in Envs :
                  /\ actions[e] \in Actions
                  /\ parents[e] \in Allocated(e)
                  /\ ~HasNaNPrior(e, parents[e])
                  /\ ~transitions.terminal[e][parents[e]]

C37_Witness ==
    /\ sim >= 2
    /\ DescendExits
    /\ \E e \in Envs : parents[e] # 0 /\ current[e] # -1

\* C38: a node whose recorded transition is terminal has no child, all its
\* children slots holding the sentinel, so backup resets the value it
\* carries at the leaf only, never at an ancestor of the leaf.
TerminalIsChildless ==
    \A e \in Envs, i \in Nodes :
        transitions.terminal[e][i] => \A a \in Actions : tree.children[e][i][a] = -1
ResetOnlyAtLeaf ==
    BackupStep =>
        \A e \in Envs :
            (climbing(e) /\ transitions.terminal[e][current[e]]) => current[e] = leaves[e]
C38_TerminalNodeHasNoChild == [](TerminalIsChildless) /\ [][ResetOnlyAtLeaf]_vars

\* C39: a call of simulate that fails the budget check leaves sim, the
\* children, parents and relation links, the stored worlds, transitions
\* and priors, visit_count and value_sum as they were, and calls neither
\* the evaluator nor the step of the environment.
C39_FailedSimulateTouchesNothing ==
    [][(pc = "idle" /\ sim >= n_nodes /\ call' = "simulate") =>
            /\ sim' = sim
            /\ tree' = tree
            /\ worlds' = worlds
            /\ transitions' = transitions
            /\ log_pi' = log_pi
            /\ stats' = stats
            /\ evaluated' = 0
            /\ steps' = 0]_vars

C39_Witness ==
    /\ call = "simulate"
    /\ raised = "ValueError"
    /\ sim >= n_nodes
    /\ evaluated = 0
    /\ steps = 0
    /\ \E e \in Envs : Allocated(e) # {0}

\* C40: every simulate that passes the budget check terminates in every
\* state the public methods reach, a fresh object before initialize
\* included: the parent link of the root stays the sentinel and the loop
\* of backup reaches it.
RootLinkIsSentinel == \A e \in Envs : tree.parents[e][0] = -1
EverySimulateReturns == (pc # "idle") ~> (pc = "idle")
C40_SimulateTerminatesFromEveryState == [](RootLinkIsSentinel) /\ EverySimulateReturns

====
